---- MODULE Spec2Model ----
(***************************************************************************)
(* State-machine model of the reusable UI components of the school         *)
(* administration front end: the DataTable component and the shared Modal  *)
(* (src/static/js/components.js), with the helpers of utils.js and         *)
(* api-config.js they call.                                                *)
(*                                                                         *)
(* The browser runs one event loop: every handler below runs to its end    *)
(* (or to its await) before another one starts, so each is one action.     *)
(* An asynchronous load is two actions: the part of loadData before the    *)
(* await, and the continuation that runs when the response arrives.        *)
(***************************************************************************)
EXTENDS Integers, Sequences, FiniteSets, TLC

VARIABLES
    options,          \* DataTable.options: the constructor's merged configuration
    currentPage,      \* DataTable.currentPage
    totalPages,       \* DataTable.totalPages
    sortColumn,       \* DataTable.sortColumn (Null when no column is selected)
    sortDirection,    \* DataTable.sortDirection
    searchQuery,      \* DataTable.searchQuery
    filters,          \* DataTable.filters
    loads,            \* the promise of every loadData call, in call order
    lastQuery,        \* query string parameters of the request issued last
    loaderActive,     \* #globalLoader has class "active"
    toasts,           \* number of error toasts shown
    tbody,            \* the <tr> elements of the table body, in order
    paginationInfo,   \* text of .pagination-info, as its three numbers
    paginationLinks,  \* the <li> elements of ul.pagination, in order
    lastOp,           \* history: the handler that ran last, with its input
    lastSettled,      \* history: the load whose response arrived last
    sortIcons,        \* icon class of each sortable header cell
    sortTrail,        \* history: the latest consecutive header clicks
    searchBox,        \* text in the input #tableSearch
    searchTimer,      \* ms left on the timeout of the debounced handler, or Absent
    modalTitle,       \* text of #globalModalTitle
    modalBody,        \* markup of #globalModalBody
    modalSizeClasses, \* size classes on #globalModal .modal-dialog
    modalFooter,      \* the buttons in #globalModalFooter, in order
    modalBackdrop,    \* options handed to $('#globalModal').modal(...)
    modalVisible,     \* the dialog #globalModal is displayed
    instance,         \* Modal.instance: 0 for null, else the n-th bootstrap.Modal
    shownHandlers,    \* handlers bound to shown.bs.modal, in binding order
    hiddenHandlers,   \* handlers bound to hidden.bs.modal, in binding order
    modalEvents,      \* events of #globalModal not yet dispatched, in order
    invoked,          \* history: the event dispatched last and the handlers it ran
    clickLog,         \* history: what the button click handled last did, in order
    modalHist,        \* history: the latest two Modal calls and clicks
    apiCalls,         \* every API_CONFIG.request call, in call order
    currentStatus,    \* registrations.js: status of the selected tab
    dues,             \* fees.js: the rows of the dues table in #feeCollectionForm
    totalToPay,       \* fees.js: the amount shown in #totalToPay
    collectLog,       \* fees.js: the state of every Fees.collectFee call, in order
    collectItems,     \* fees.js: items of the collect request sent last
    tabTables,        \* the page's lazily created tables, by the tab's href
    constructed,      \* history: new DataTable calls of each tab's init function
    lastShow,         \* history: the tab shown last, and whether it had a table
    currentMonth,     \* dashboard.js: currentMonth (Absent off the attendance page)
    currentYear,      \* dashboard.js: currentYear (Absent off the attendance page)
    calendarHeader,   \* month and year in the text of #currentMonthYear
    calendarGrid,     \* month and year of the days rendered in the calendar
    calendarPending,  \* renderCalendar calls that await the calendar data
    navTrail          \* history: the latest two month navigation calls

modalVars == <<modalTitle, modalBody, modalSizeClasses, modalFooter,
               modalBackdrop, modalVisible, instance, shownHandlers,
               hiddenHandlers, modalEvents, invoked, clickLog, modalHist>>

tableVars == <<options, currentPage, totalPages, sortColumn, sortDirection,
               searchQuery, filters, loads, lastQuery, loaderActive, toasts,
               tbody, paginationInfo, paginationLinks, lastOp, lastSettled,
               sortIcons, sortTrail, searchBox, searchTimer>>

searchVars == <<searchBox, searchTimer>>

\* the table's variables other than the loader, which the pages share with it
tableButLoader == <<options, currentPage, totalPages, sortColumn, sortDirection,
                    searchQuery, filters, loads, lastQuery, toasts, tbody,
                    paginationInfo, paginationLinks, lastOp, lastSettled,
                    sortIcons, sortTrail, searchBox, searchTimer>>

requestVars == <<apiCalls>>

\* the variables of the page scripts and of API_CONFIG
registrationVars == <<currentStatus>>

feeVars == <<dues, totalToPay, collectLog, collectItems>>

tabVars == <<tabTables, constructed, lastShow>>

calendarVars == <<currentMonth, currentYear, calendarHeader, calendarGrid,
                  calendarPending, navTrail>>

pageVars == <<requestVars, registrationVars, feeVars, tabVars, calendarVars>>

----------------------------------------------------------------------------
(* Bounds of the model *)

\* loadData calls in one behaviour of SpecTable
MaxLoads == 2
\* largest total row count a response reports in SpecTable
MaxCount == 3
\* largest number of rows in one response in SpecTable
MaxRows == 1
\* largest page a table of SpecRender starts on
MaxPage == 8
\* largest total row count a response reports in SpecRender
MaxTotal == 14
\* largest number of rows in one response in SpecRender
MaxPageRows == 3
\* Modal.show calls in one behaviour of SpecModal
MaxShows == 3
\* ms that pass in one step of the clock of SpecSearch
TickMs == 250
\* renderCalendar calls that may await their data at one time
MaxCalendarLoads == 2
\* years the calendar may be moved away from the year of loading
YearSpan == 1
\* API_CONFIG.request calls in one behaviour of SpecRequest
MaxRequests == 2
\* largest number of dues of the selected student in SpecCollect
MaxDues == 2
\* Fees.collectFee calls in one behaviour of SpecCollect
MaxCollects == 1

----------------------------------------------------------------------------
(* Values *)

\* JavaScript null; URLSearchParams writes it as the text "null"
Null == "null"
\* JavaScript undefined; URLSearchParams writes it as the text "undefined"
Undefined == "undefined"
\* a key missing from the response envelope
Absent == -1

Max(a, b) == IF a >= b THEN a ELSE b
Min(a, b) == IF a <= b THEN a ELSE b

\* {...base, ...over}: object spread, keys of over win
Spread(base, over) ==
    [k \in (DOMAIN base) \cup (DOMAIN over) |->
        IF k \in DOMAIN over THEN over[k] ELSE base[k]]

EmptyObject == [k \in {} |-> Null]

\* a JavaScript value of a row field: its type and the text `${value}` gives
JsValue(type, text) == [ type |-> type, text |-> text ]

\* the value of obj[key]: undefined when obj has no such key
Get(obj, key) ==
    IF key \in DOMAIN obj THEN obj[key] ELSE JsValue("undefined", Undefined)

\* a value `||` passes over: undefined, null, false, 0, NaN and ""
Falsy(value) ==
    \/ value.type \in {"undefined", "null"}
    \/ value.type = "boolean" /\ value.text = "false"
    \/ value.type = "number" /\ value.text \in {"0", "NaN"}
    \/ value.type = "string" /\ value.text = ""

----------------------------------------------------------------------------
(* DataTable: construction *)

Cols2 == << [key |-> "name",  sortable |-> TRUE,  render |-> FALSE],
            [key |-> "grade", sortable |-> TRUE,  render |-> FALSE] >>
Cols3 == << [key |-> "name",  sortable |-> TRUE,  render |-> FALSE],
            [key |-> "grade", sortable |-> TRUE,  render |-> TRUE],
            [key |-> "photo", sortable |-> FALSE, render |-> TRUE] >>

\* the option objects callers pass to new DataTable(...)
CallerOptions ==
    { [columns |-> Cols2],
      [columns |-> Cols3, pageSize |-> 1, emptyMessage |-> "No students found"],
      [columns |-> Cols2, pageSize |-> 2],
      [columns |-> Cols3, pageSize |-> 3, sortable |-> FALSE] }

DefaultOptions ==
    [ columns      |-> << >>,
      searchable   |-> TRUE,
      sortable     |-> TRUE,
      pageSize     |-> 20,
      emptyMessage |-> "No data available" ]

\* header cells that get class "sortable" (renderHeaders)
SortableKeys ==
    { options.columns[i].key : i \in
        { j \in 1..Len(options.columns) :
            options.sortable /\ options.columns[j].sortable } }

----------------------------------------------------------------------------
(* DataTable: building the request *)

\* filter mappings a caller may hand to setFilters: any object, its keys the
\* caller's field names and its values the text of form fields
FilterMaps ==
    { EmptyObject,
      [status |-> "PENDING"],
      [class |-> "5A", page |-> "3"] }

\* the params object of loadData; every value as URLSearchParams writes it
loadDataParams(page, query, column, direction, flt) ==
    Spread([ page       |-> ToString(page),
             page_size  |-> ToString(options.pageSize),
             search     |-> query,
             sort_by    |-> column,
             sort_order |-> direction ],
           flt)

----------------------------------------------------------------------------
(* DataTable: rendering *)

\* the placeholder with a cell that spans one column only
PlaceholderRow_oneColumn ==
    [ type    |-> "placeholder",
      colspan |-> 1,
      message |-> options.emptyMessage ]

\* the placeholder row of the empty state
PlaceholderRow ==
    [ type    |-> "placeholder",
      colspan |-> Len(options.columns),
      message |-> options.emptyMessage ]

\* col.render(row): the markup fragment the caller's function returns
render(col, row) == JsValue("string", "markup")

\* the text of the <td> of column col in the <tr> of row:
\* `<td>${value || '-'}</td>`
Cell(col, row) ==
    LET value == IF col.render THEN render(col, row)
                 ELSE Get(row.fields, col.key)
    IN  IF Falsy(value) THEN "-" ELSE value.text

\* renderData(data): the rows of tbody after the call
renderData(data) ==
    IF Len(data) = 0
    THEN << PlaceholderRow >>
    ELSE [ i \in 1..Len(data) |->
             [ type  |-> "data",
               row   |-> data[i],
               cells |-> [ c \in 1..Len(options.columns) |->
                             Cell(options.columns[c], data[i]) ] ] ]

\* Math.ceil(totalCount / pageSize), both non-negative integers
CeilDiv(n, p) == (n + p - 1) \div p

maxVisible == 5

\* the window without the clamp of endPage to totalPages
PageWindow_noClamp(page, pages) ==
    LET startPage0 == Max(1, page - (maxVisible \div 2))
        endPage    == startPage0 + maxVisible - 1
    IN  [ startPage |-> startPage0, endPage |-> endPage ]

\* the window whose start is not moved back when the end is cut
PageWindow_noShift(page, pages) ==
    LET startPage0 == Max(1, page - (maxVisible \div 2))
        endPage    == Min(pages, startPage0 + maxVisible - 1)
    IN  [ startPage |-> startPage0, endPage |-> endPage ]

\* first and last numbered link: the window of renderPagination
PageWindow(page, pages) ==
    LET startPage0 == Max(1, page - (maxVisible \div 2))
        endPage    == Min(pages, startPage0 + maxVisible - 1)
        startPage  == IF endPage - startPage0 < maxVisible - 1
                      THEN Max(1, endPage - maxVisible + 1)
                      ELSE startPage0
    IN  [ startPage |-> startPage, endPage |-> endPage ]

PrevLink(page) ==
    [ kind |-> "prev", page |-> page - 1, disabled |-> (page = 1),
      active |-> FALSE ]

NextLink(page, pages) ==
    [ kind |-> "next", page |-> page + 1, disabled |-> (page = pages),
      active |-> FALSE ]

NumberLinks(page, pages) ==
    LET w == PageWindow(page, pages)
    IN  IF w.endPage < w.startPage
        THEN << >>
        ELSE [ i \in 1..(w.endPage - w.startPage + 1) |->
                 [ kind |-> "number", page |-> w.startPage + i - 1,
                   disabled |-> FALSE,
                   active |-> (w.startPage + i - 1 = page) ] ]

\* the <li> elements renderPagination appends, in order
PaginationLinks(page, pages) ==
    << PrevLink(page) >> \o NumberLinks(page, pages) \o << NextLink(page, pages) >>

\* the info with a zero-based first row
PaginationInfo_zeroBased(page, size, totalCount) ==
    [ start |-> (page - 1) * size,
      end   |-> Min(page * size, totalCount),
      total |-> totalCount ]

\* "Showing start to end of total entries"
PaginationInfo(page, size, totalCount) ==
    [ start |-> (page - 1) * size + 1,
      end   |-> Min(page * size, totalCount),
      total |-> totalCount ]

\* renderPagination(totalCount)
renderPagination(totalCount) ==
    /\ totalPages' = CeilDiv(totalCount, options.pageSize)
    /\ paginationInfo' = PaginationInfo(currentPage, options.pageSize, totalCount)
    /\ paginationLinks' = PaginationLinks(currentPage, totalPages')

----------------------------------------------------------------------------
(* DataTable: loading *)

\* response bodies of the list endpoint: the number of rows under `results`
\* and under `data`, and `count`, each possibly missing. A page holds no more
\* rows than the count reported; the envelope without `results` has no `count`.
ResponsesUpTo(maxRows, maxCount) ==
    { r \in [ results : 0..maxRows, data : {Absent}, count : 0..maxCount ] :
        r.results <= r.count }
    \cup [ results : {Absent}, data : {Absent} \cup (0..maxRows), count : {Absent} ]

Responses == ResponsesUpTo(MaxRows, MaxCount)

\* the fields of a row the list endpoint usually returns
TypicalRow ==
    [ name |-> JsValue("string", "Ali"), grade |-> JsValue("number", "7") ]

\* the fields of the rows of a response: those it names, else the usual ones
RowFields(resp) ==
    IF "fields" \in DOMAIN resp THEN resp.fields ELSE TypicalRow

\* n rows: a row is named by the load that fetched it, the key of the
\* response it came under and its place there, and has its fields
Rows(id, under, n, fields) ==
    [ i \in 1..n |->
        [ load |-> id, under |-> under, index |-> i, fields |-> fields ] ]

\* the rows with an empty `results` array passed over like a missing one
ResponseRows_emptyIsMissing(id, resp) ==
    IF resp.results # Absent /\ resp.results # 0
    THEN Rows(id, "results", resp.results, RowFields(resp))
    ELSE IF resp.data # Absent
    THEN Rows(id, "data", resp.data, RowFields(resp))
    ELSE << >>

\* response.results || response.data || []  (an array, even empty, is truthy)
ResponseRows(id, resp) ==
    IF resp.results # Absent
    THEN Rows(id, "results", resp.results, RowFields(resp))
    ELSE IF resp.data # Absent
    THEN Rows(id, "data", resp.data, RowFields(resp))
    ELSE << >>

\* response.count || 0
ResponseCount(resp) == IF resp.count = Absent THEN 0 ELSE resp.count

Pending == { id \in 1..Len(loads) : loads[id] = "pending" }

\* loadData up to its await: the loader is shown and the request is sent with
\* the table state read at this moment (given as arguments: the caller's
\* assignments come first)
loadData(page, query, column, direction, flt) ==
    /\ Len(loads) < MaxLoads
    /\ loaderActive' = TRUE
    /\ lastQuery' = loadDataParams(page, query, column, direction, flt)
    /\ loads' = Append(loads, "pending")

\* the continuation with request sequencing: the response of a load that is
\* not the latest one issued is discarded
loadDataResolved_dropStale(id, resp) ==
    /\ UNCHANGED << modalVars, searchVars, pageVars >>
    /\ id \in Pending
    /\ IF id = Len(loads)
       THEN /\ tbody' = renderData(ResponseRows(id, resp))
            /\ renderPagination(ResponseCount(resp))
       ELSE UNCHANGED << tbody, totalPages, paginationInfo, paginationLinks >>
    /\ loaderActive' = FALSE
    /\ loads' = [loads EXCEPT ![id] = "fulfilled"]
    /\ lastSettled' = [ id |-> id, ok |-> TRUE,
                        response |-> [ results |-> resp.results,
                                       data |-> resp.data,
                                       count |-> resp.count ],
                        rows |-> ResponseRows(id, resp),
                        count |-> ResponseCount(resp) ]
    /\ lastOp' = [ op |-> "response", id |-> id ]
    /\ UNCHANGED << options, currentPage, sortColumn, sortDirection, searchQuery,
                    filters, lastQuery, toasts, sortIcons, sortTrail >>

\* loadData after its await, the request having succeeded
loadDataResolved(id, resp) ==
    /\ UNCHANGED << modalVars, searchVars, pageVars >>
    /\ id \in Pending
    /\ tbody' = renderData(ResponseRows(id, resp))
    /\ renderPagination(ResponseCount(resp))
    /\ loaderActive' = FALSE
    /\ loads' = [loads EXCEPT ![id] = "fulfilled"]
    /\ lastSettled' = [ id |-> id, ok |-> TRUE,
                        response |-> [ results |-> resp.results,
                                       data |-> resp.data,
                                       count |-> resp.count ],
                        rows |-> ResponseRows(id, resp),
                        count |-> ResponseCount(resp) ]
    /\ lastOp' = [ op |-> "response", id |-> id ]
    /\ UNCHANGED << options, currentPage, sortColumn, sortDirection, searchQuery,
                    filters, lastQuery, toasts, sortIcons, sortTrail >>

\* the failure path with a catch block that throws the error on
loadDataFailed_rethrow(id) ==
    /\ UNCHANGED << modalVars, searchVars, pageVars >>
    /\ id \in Pending
    /\ toasts' = toasts + 1
    /\ tbody' = renderData(<< >>)
    /\ loaderActive' = FALSE
    /\ loads' = [loads EXCEPT ![id] = "rejected"]
    /\ lastSettled' = [ id |-> id, ok |-> FALSE ]
    /\ lastOp' = [ op |-> "response", id |-> id ]
    /\ UNCHANGED << options, currentPage, totalPages, sortColumn, sortDirection,
                    searchQuery, filters, lastQuery, paginationInfo,
                    paginationLinks, sortIcons, sortTrail >>

\* the failure path with hideLoader at the end of the try block only
loadDataFailed_loaderStays(id) ==
    /\ UNCHANGED << modalVars, searchVars, pageVars >>
    /\ id \in Pending
    /\ toasts' = toasts + 1
    /\ tbody' = renderData(<< >>)
    /\ loads' = [loads EXCEPT ![id] = "fulfilled"]
    /\ lastSettled' = [ id |-> id, ok |-> FALSE ]
    /\ lastOp' = [ op |-> "response", id |-> id ]
    /\ UNCHANGED << options, currentPage, totalPages, sortColumn, sortDirection,
                    searchQuery, filters, lastQuery, paginationInfo,
                    paginationLinks, sortIcons, sortTrail, loaderActive >>

\* the failure path with a catch block that also renders an empty pagination
loadDataFailed_resetsPagination(id) ==
    /\ UNCHANGED << modalVars, searchVars, pageVars >>
    /\ id \in Pending
    /\ toasts' = toasts + 1
    /\ tbody' = renderData(<< >>)
    /\ renderPagination(0)
    /\ loaderActive' = FALSE
    /\ loads' = [loads EXCEPT ![id] = "fulfilled"]
    /\ lastSettled' = [ id |-> id, ok |-> FALSE ]
    /\ lastOp' = [ op |-> "response", id |-> id ]
    /\ UNCHANGED << options, currentPage, sortColumn, sortDirection,
                    searchQuery, filters, lastQuery, sortIcons, sortTrail >>

\* loadData after its await, the request having failed: catch, then finally
loadDataFailed(id) ==
    /\ UNCHANGED << modalVars, searchVars, pageVars >>
    /\ id \in Pending
    /\ toasts' = toasts + 1
    /\ tbody' = renderData(<< >>)
    /\ loaderActive' = FALSE
    /\ loads' = [loads EXCEPT ![id] = "fulfilled"]
    /\ lastSettled' = [ id |-> id, ok |-> FALSE ]
    /\ lastOp' = [ op |-> "response", id |-> id ]
    /\ UNCHANGED << options, currentPage, totalPages, sortColumn, sortDirection,
                    searchQuery, filters, lastQuery, paginationInfo,
                    paginationLinks, sortIcons, sortTrail >>

----------------------------------------------------------------------------
(* DataTable: operations and event handlers *)

\* a refresh whose request leaves the filters out
refresh_noFilters ==
    /\ UNCHANGED << modalVars, searchVars, pageVars >>
    /\ loadData(currentPage, searchQuery, sortColumn, sortDirection, EmptyObject)
    /\ lastOp' = [ op |-> "refresh" ]
    /\ sortTrail' = << >>
    /\ UNCHANGED << options, currentPage, totalPages, sortColumn, sortDirection,
                    searchQuery, filters, toasts, tbody, paginationInfo,
                    paginationLinks, lastSettled, sortIcons >>

\* refresh(), and loadData() called by a page controller
refresh ==
    /\ UNCHANGED << modalVars, searchVars, pageVars >>
    /\ loadData(currentPage, searchQuery, sortColumn, sortDirection, filters)
    /\ lastOp' = [ op |-> "refresh" ]
    /\ sortTrail' = << >>
    /\ UNCHANGED << options, currentPage, totalPages, sortColumn, sortDirection,
                    searchQuery, filters, toasts, tbody, paginationInfo,
                    paginationLinks, lastSettled, sortIcons >>

\* setFilters(filters)
\* what a call of setFilters does to the table
setFiltersCall(f) ==
    /\ filters' = f
    /\ currentPage' = 1
    /\ loadData(currentPage', searchQuery, sortColumn, sortDirection, filters')
    /\ sortTrail' = << >>
    /\ UNCHANGED << options, totalPages, sortColumn, sortDirection, searchQuery,
                    toasts, tbody, paginationInfo, paginationLinks, lastSettled,
                    sortIcons >>

setFilters(f) ==
    /\ UNCHANGED << modalVars, searchVars, pageVars >>
    /\ setFiltersCall(f)
    /\ lastOp' = [ op |-> "setFilters", arg |-> f ]

\* texts a user may have typed into the search box
SearchTexts == {"", "ali"}

\* the input handler of #tableSearch, the function handed to Utils.debounce,
\* run while the box holds `text`. Utils.debounce calls func(...args) without
\* a receiver and the handler is strict code (a class body), so `this` is
\* undefined, $(this) is the empty set and .val() is undefined whatever the
\* box holds.
searchCallback(text) ==
    /\ UNCHANGED << modalVars, pageVars >>
    /\ options.searchable
    /\ searchQuery' = Undefined
    /\ currentPage' = 1
    /\ loadData(currentPage', searchQuery', sortColumn, sortDirection, filters)
    /\ lastOp' = [ op |-> "search", text |-> text ]
    /\ sortTrail' = << >>
    /\ UNCHANGED << options, totalPages, sortColumn, sortDirection, filters,
                    toasts, tbody, paginationInfo, paginationLinks, lastSettled,
                    sortIcons >>

\* a burst of input events that leaves `text` in the box, and the run of the
\* handler when the burst's timeout expires, no other handler running in
\* between; the timeout is not kept
searchInput(text) ==
    /\ searchTimer = Absent
    /\ searchBox' = text
    /\ UNCHANGED searchTimer
    /\ searchCallback(text)

\* the wait handed to Utils.debounce, in ms
searchWait == 500

\* executedFunction, the function Utils.debounce returns, run on an input
\* event that leaves `text` in the box: clearTimeout, then setTimeout
executedFunction(text) ==
    /\ options.searchable
    /\ searchBox' = text
    /\ searchTimer' = searchWait
    /\ lastOp' = [ op |-> "input", text |-> text ]
    /\ UNCHANGED << options, currentPage, totalPages, sortColumn, sortDirection,
                    searchQuery, filters, loads, lastQuery, loaderActive, toasts,
                    tbody, paginationInfo, paginationLinks, lastSettled,
                    sortIcons, sortTrail >>
    /\ UNCHANGED << modalVars, pageVars >>

\* TickMs ms pass while the timeout runs; a timeout is never early
tick ==
    /\ searchTimer # Absent
    /\ searchTimer > 0
    /\ searchTimer' = Max(0, searchTimer - TickMs)
    /\ UNCHANGED << options, currentPage, totalPages, sortColumn, sortDirection,
                    searchQuery, filters, loads, lastQuery, loaderActive, toasts,
                    tbody, paginationInfo, paginationLinks, lastOp, lastSettled,
                    sortIcons, sortTrail, searchBox >>
    /\ UNCHANGED << modalVars, pageVars >>

\* later, the timeout callback of Utils.debounce: it calls the handler
later ==
    /\ searchTimer = 0
    /\ searchTimer' = Absent
    /\ UNCHANGED searchBox
    /\ searchCallback(searchBox)

\* updateSortIcons()
updateSortIcons(column, direction) ==
    [ k \in SortableKeys |->
        IF k = column
        THEN (IF direction = "asc" THEN "fa-sort-up" ELSE "fa-sort-down")
        ELSE "fa-sort" ]

\* the sort state after a click that never toggles
sortClickState_noToggle(column) ==
    [ column |-> column, direction |-> "asc" ]

\* the sort state after a click on the header of `column`
sortClickState(column) ==
    IF sortColumn = column
    THEN [ column |-> sortColumn,
           direction |-> IF sortDirection = "asc" THEN "desc" ELSE "asc" ]
    ELSE [ column |-> column, direction |-> "asc" ]

\* the last two entries of a sequence
LastTwo(s) == IF Len(s) <= 2 THEN s ELSE SubSeq(s, Len(s) - 1, Len(s))

\* click handler of th.sortable
sortClick(column) ==
    /\ UNCHANGED << modalVars, searchVars, pageVars >>
    /\ column \in SortableKeys
    /\ sortColumn' = sortClickState(column).column
    /\ sortDirection' = sortClickState(column).direction
    /\ loadData(currentPage, searchQuery, sortColumn', sortDirection', filters)
    /\ sortIcons' = updateSortIcons(sortColumn', sortDirection')
    /\ lastOp' = [ op |-> "sort", column |-> column ]
    /\ sortTrail' = LastTwo(Append(sortTrail,
                        [ column |-> column, columnBefore |-> sortColumn,
                          directionBefore |-> sortDirection,
                          loadsBefore |-> Len(loads) ]))
    /\ UNCHANGED << options, currentPage, totalPages, searchQuery, filters,
                    toasts, tbody, paginationInfo, paginationLinks, lastSettled >>

\* the click handler without the test page <= totalPages
pageLinkClick_noUpperBound(i) ==
    /\ UNCHANGED << modalVars, searchVars, pageVars >>
    /\ i \in 1..Len(paginationLinks)
    /\ LET page == paginationLinks[i].page
       IN  IF page > 0 /\ page # currentPage
           THEN /\ currentPage' = page
                /\ loadData(currentPage', searchQuery, sortColumn,
                            sortDirection, filters)
           ELSE UNCHANGED << currentPage, loaderActive, lastQuery, loads >>
    /\ lastOp' = [ op |-> "page", link |-> i ]
    /\ sortTrail' = << >>
    /\ UNCHANGED << options, totalPages, sortColumn, sortDirection, searchQuery,
                    filters, toasts, tbody, paginationInfo, paginationLinks,
                    lastSettled, sortIcons >>

\* the click handler without the test page > 0
pageLinkClick_noLowerBound(i) ==
    /\ UNCHANGED << modalVars, searchVars, pageVars >>
    /\ i \in 1..Len(paginationLinks)
    /\ LET page == paginationLinks[i].page
       IN  IF page <= totalPages /\ page # currentPage
           THEN /\ currentPage' = page
                /\ loadData(currentPage', searchQuery, sortColumn,
                            sortDirection, filters)
           ELSE UNCHANGED << currentPage, loaderActive, lastQuery, loads >>
    /\ lastOp' = [ op |-> "page", link |-> i ]
    /\ sortTrail' = << >>
    /\ UNCHANGED << options, totalPages, sortColumn, sortDirection, searchQuery,
                    filters, toasts, tbody, paginationInfo, paginationLinks,
                    lastSettled, sortIcons >>

\* click handler of the i-th .page-link; data-page is the link's page
pageLinkClick(i) ==
    /\ UNCHANGED << modalVars, searchVars, pageVars >>
    /\ i \in 1..Len(paginationLinks)
    /\ LET page == paginationLinks[i].page
       IN  IF page > 0 /\ page <= totalPages /\ page # currentPage
           THEN /\ currentPage' = page
                /\ loadData(currentPage', searchQuery, sortColumn,
                            sortDirection, filters)
           ELSE UNCHANGED << currentPage, loaderActive, lastQuery, loads >>
    /\ lastOp' = [ op |-> "page", link |-> i ]
    /\ sortTrail' = << >>
    /\ UNCHANGED << options, totalPages, sortColumn, sortDirection, searchQuery,
                    filters, toasts, tbody, paginationInfo, paginationLinks,
                    lastSettled, sortIcons >>

----------------------------------------------------------------------------
(* Modal *)

\* a footer button: onClick is what its handler does, in order: "Modal.hide"
\* for a call of Modal.hide(), else the name of the caller's function it calls
Button(label, class, onClick) ==
    [ label |-> label, class |-> class, onClick |-> onClick ]

Html(text) == [ markup |-> "html", text |-> text ]

\* the defaults object of Modal.show
ModalDefaults ==
    [ title           |-> "Modal",
      body            |-> Html(""),
      size            |-> "md",
      buttons         |-> << Button("Close", "btn-secondary", << "Modal.hide" >>) >>,
      closeOnBackdrop |-> TRUE,
      onShow          |-> Null,
      onHide          |-> Null ]

\* `modal-${config.size}`
SizeClass(size) ==
    CASE size = "sm" -> "modal-sm"
      [] size = "md" -> "modal-md"
      [] size = "lg" -> "modal-lg"
      [] size = "xl" -> "modal-xl"

\* the size classes without removeClass: the configured one is added to those
\* of the dialog shown before
showSizeClasses_keepOld(config) ==
    modalSizeClasses
        \cup (IF config.size # "md" THEN {SizeClass(config.size)} ELSE {})

\* size classes of the dialog after show: the three known ones removed, then
\* the configured one added unless it is md
showSizeClasses(config) ==
    (modalSizeClasses \ {"modal-sm", "modal-lg", "modal-xl"})
        \cup (IF config.size # "md" THEN {SizeClass(config.size)} ELSE {})

\* the footer without $footer.empty(): the buttons are added to those there
showFooter_noEmpty(config) == modalFooter \o config.buttons

\* buttons of the footer after show: emptied, then one per configured button
showFooter(config) == config.buttons

\* an event of #globalModal, of the dialog the show-th call of show displayed
Event(type, n) == [ type |-> type, show |-> n ]

\* handlers of an event after show binds `handler` when it is given: .on adds
\* it to those bound before; it is the function object of this call of show
bindHandler(handlers, handler) ==
    IF handler # Null
    THEN Append(handlers, [ fn |-> handler, show |-> instance + 1 ])
    ELSE handlers

\* Modal.show(options); `via` names the function that made the call
show(opts, via) ==
    /\ UNCHANGED << tableVars, pageVars >>
    /\ instance < MaxShows
    /\ LET config == Spread(ModalDefaults, opts)
       IN  /\ modalTitle' = config.title
           /\ modalBody' = config.body
           /\ modalSizeClasses' = showSizeClasses(config)
           /\ modalFooter' = showFooter(config)
           /\ modalBackdrop' =
                 [ backdrop |-> IF config.closeOnBackdrop THEN "true" ELSE "static",
                   keyboard |-> config.closeOnBackdrop ]
           /\ instance' = instance + 1
           /\ modalVisible' = TRUE
           /\ modalEvents' = Append(modalEvents,
                                    Event("shown.bs.modal", instance + 1))
           /\ shownHandlers' = bindHandler(shownHandlers, config.onShow)
           /\ hiddenHandlers' = bindHandler(hiddenHandlers, config.onHide)
    /\ modalHist' = LastTwo(Append(modalHist,
                        [ op |-> "show", via |-> via, options |-> opts ]))
    /\ UNCHANGED << clickLog, invoked >>

\* a hide that hides only the dialog of the first show
hideModal_firstOnly(visible) == IF instance = 1 THEN FALSE ELSE visible

\* whether the dialog is displayed after Modal.hide()
hideModal(visible) == IF instance # 0 THEN FALSE ELSE visible

\* the events Modal.hide() causes: hidden.bs.modal when it hides a dialog
hideEvents(visible) ==
    IF instance # 0 /\ visible
    THEN << Event("hidden.bs.modal", instance) >>
    ELSE << >>

\* Modal.hide() called by a page controller
hide ==
    /\ UNCHANGED << tableVars, pageVars >>
    /\ modalVisible' = hideModal(modalVisible)
    /\ modalEvents' = modalEvents \o hideEvents(modalVisible)
    /\ modalHist' = LastTwo(Append(modalHist, [ op |-> "hide" ]))
    /\ UNCHANGED << modalTitle, modalBody, modalSizeClasses, modalFooter,
                    modalBackdrop, instance, shownHandlers, hiddenHandlers,
                    invoked, clickLog >>

\* the buttons with a Confirm handler that calls back before it hides
modalConfirmButtons_callFirst(onConfirm) ==
    << Button("Cancel", "btn-secondary", << "Modal.hide" >>),
       Button("Confirm", "btn-primary", << onConfirm, "Modal.hide" >>) >>

\* buttons of Modal.confirm(message, onConfirm)
modalConfirmButtons(onConfirm) ==
    << Button("Cancel", "btn-secondary", << "Modal.hide" >>),
       Button("Confirm", "btn-primary", << "Modal.hide", onConfirm >>) >>

\* Modal.confirm(message, onConfirm)
confirm(message, onConfirm) ==
    show([ title   |-> "Confirm Action",
           body    |-> [ markup |-> "p.mb-0", text |-> message ],
           buttons |-> modalConfirmButtons(onConfirm) ],
         "Modal.confirm")

\* buttons of Utils.confirm(message, onConfirm, onCancel)
utilsConfirmButtons(onConfirm, onCancel) ==
    << Button("Cancel", "btn-secondary",
              << "Modal.hide" >> \o (IF onCancel # Null THEN << onCancel >> ELSE << >>)),
       Button("Confirm", "btn-primary", << "Modal.hide", onConfirm >>) >>

\* Utils.confirm(message, onConfirm, onCancel = null)
utilsConfirm(message, onConfirm, onCancel) ==
    show([ title   |-> "Confirm Action",
           body    |-> [ markup |-> "p", text |-> message ],
           buttons |-> utilsConfirmButtons(onConfirm, onCancel) ],
         "Utils.confirm")

\* a click handler run statement by statement from the k-th on: the dialog's
\* display and the log of what ran; a call of a caller's function is logged
\* with the display it found
RECURSIVE runHandler(_, _, _, _)
runHandler(steps, k, visible, log) ==
    IF k > Len(steps) THEN [ visible |-> visible, log |-> log ]
    ELSE IF steps[k] = "Modal.hide"
    THEN runHandler(steps, k + 1, hideModal(visible),
                    Append(log, [ did |-> "Modal.hide", visible |-> visible ]))
    ELSE runHandler(steps, k + 1, visible,
                    Append(log, [ did |-> steps[k], visible |-> visible ]))

\* a click on the i-th footer button of the displayed dialog
click(i) ==
    /\ UNCHANGED << tableVars, pageVars >>
    /\ modalVisible
    /\ i \in 1..Len(modalFooter)
    /\ LET after == runHandler(modalFooter[i].onClick, 1, modalVisible, << >>)
       IN  /\ modalVisible' = after.visible
           /\ modalEvents' = IF after.visible # modalVisible
                             THEN modalEvents \o hideEvents(modalVisible)
                             ELSE modalEvents
           /\ clickLog' = after.log
    /\ modalHist' = LastTwo(Append(modalHist,
                        [ op |-> "click", label |-> modalFooter[i].label ]))
    /\ UNCHANGED << modalTitle, modalBody, modalSizeClasses, modalFooter,
                    modalBackdrop, instance, shownHandlers, hiddenHandlers,
                    invoked >>

\* #globalModal dispatches its next event, the transition of the dialog having
\* ended: jQuery runs every handler bound to the event, in binding order
dispatch ==
    /\ UNCHANGED << tableVars, pageVars >>
    /\ modalEvents # << >>
    /\ LET event == Head(modalEvents)
       IN  invoked' = [ event |-> event,
                        calls |-> IF event.type = "shown.bs.modal"
                                  THEN shownHandlers ELSE hiddenHandlers ]
    /\ modalEvents' = Tail(modalEvents)
    /\ UNCHANGED << modalTitle, modalBody, modalSizeClasses, modalFooter,
                    modalBackdrop, modalVisible, instance, shownHandlers,
                    hiddenHandlers, clickLog, modalHist >>

\* option objects page controllers pass to Modal.show
\* the options of the student details dialog
DetailsOptions ==
    [ title |-> "Student Details", body |-> Html("profile"), size |-> "lg",
      buttons |-> << Button("Edit", "btn-primary", << "Modal.hide", "editStudent" >>),
                     Button("Close", "btn-secondary", << "Modal.hide" >>) >> ]

ShowOptions ==
    { EmptyObject,
      DetailsOptions,
      [ title |-> "Notice", body |-> Html("notice"), size |-> "sm",
        closeOnBackdrop |-> FALSE, onShow |-> "focusInput", onHide |-> "cleanup" ],
      [ title |-> "Report", body |-> Html("report"), size |-> "xl",
        buttons |-> << >> ] }

ConfirmMessages == { "Delete this student?" }

\* the page as loaded: the dialog markup is there, hidden and unsized
InitModal ==
    /\ modalTitle = ""
    /\ modalBody = Html("")
    /\ modalSizeClasses = {}
    /\ modalFooter = << >>
    /\ modalBackdrop = [ backdrop |-> "true", keyboard |-> TRUE ]
    /\ modalVisible = FALSE
    /\ instance = 0
    /\ shownHandlers = << >>
    /\ hiddenHandlers = << >>
    /\ modalEvents = << >>
    /\ invoked = [ event |-> Event("none", 0), calls |-> << >> ]
    /\ clickLog = << >>
    /\ modalHist = << >>

NextModal ==
    \/ \E opts \in ShowOptions : show(opts, "Modal.show")
    \/ \E m \in ConfirmMessages : confirm(m, "onConfirm")
    \/ \E m \in ConfirmMessages, onCancel \in {Null, "onCancel"} :
            utilsConfirm(m, "onConfirm", onCancel)
    \/ hide
    \/ \E i \in 1..2 : click(i)
    \/ dispatch

----------------------------------------------------------------------------
(* API_CONFIG.request *)

\* response bodies: a JSON object, the JSON text null, and text that is not
\* JSON (an HTML error page of a proxy, an empty body)
JsonObject(object) == [ kind |-> "object", value |-> object ]
JsonNull == [ kind |-> "null", value |-> EmptyObject ]
NotJson == [ kind |-> "text", value |-> EmptyObject ]

Bodies ==
    { JsonObject([ message |-> "Not found" ]),
      JsonObject([ results |-> "rows" ]),
      JsonNull,
      NotJson }

HttpStatuses == { 200, 404, 500 }

\* messages of the TypeError a failed fetch rejects with
FetchErrors == { "Failed to fetch", "" }

\* Response.ok
ok(status) == status >= 200 /\ status <= 299

NoResponse == [ status |-> Absent, body |-> NotJson ]
NoValue == [ status |-> Absent, message |-> "", data |-> NotJson ]

\* an Error object thrown by the runtime: it has a message and no status
Error(message) == [ status |-> Absent, message |-> message, data |-> NotJson ]

\* the try block from the parsed body on: what it returns or throws
tryBlock(response) ==
    LET data == response.body
    IN  IF data.kind = "text"
        THEN [ thrown |-> TRUE, value |-> Error("Unexpected token in JSON") ]
        ELSE IF ~ok(response.status)
        THEN IF data.kind = "null"
             THEN [ thrown |-> TRUE,
                    value  |-> Error("Cannot read properties of null") ]
             ELSE [ thrown |-> TRUE,
                    value  |-> [ status  |-> response.status,
                                 message |-> IF "message" \in DOMAIN data.value
                                                /\ data.value.message # ""
                                             THEN data.value.message
                                             ELSE "Request failed",
                                 data    |-> data ] ]
        ELSE [ thrown |-> FALSE,
               value  |-> [ status |-> Absent, message |-> "", data |-> data ] ]

\* the catch block: what it throws for the error caught
catchBlock(error) ==
    IF error.status # Absent /\ error.status # 0
    THEN error
    ELSE [ status  |-> 0,
           message |-> IF error.message = "" THEN "Network error"
                       ELSE error.message,
           data    |-> NotJson ]

\* API_CONFIG.request up to the await of fetch
request ==
    /\ Len(apiCalls) < MaxRequests
    /\ loaderActive' = TRUE
    /\ apiCalls' = Append(apiCalls, [ phase |-> "fetch", response |-> NoResponse,
                                      failure |-> "none", result |-> NoValue,
                                      loaderAfter |-> TRUE ])
    /\ UNCHANGED << tableButLoader, modalVars, registrationVars, feeVars,
                    tabVars, calendarVars >>

\* fetch resolves with a response: the call goes on to await response.json()
fetchResolved(id, status, body) ==
    /\ id \in 1..Len(apiCalls)
    /\ apiCalls[id].phase = "fetch"
    /\ apiCalls' = [ apiCalls EXCEPT ![id].phase = "json",
                         ![id].response = [ status |-> status, body |-> body ] ]
    /\ UNCHANGED << tableVars, modalVars, registrationVars, feeVars, tabVars,
                    calendarVars >>

\* the call settles: the promise resolves with the value or rejects with it,
\* and the finally block hides the loader
settle(id, outcome, failure) ==
    /\ loaderActive' = FALSE
    /\ apiCalls' = [ apiCalls EXCEPT
                         ![id].phase = IF outcome.thrown THEN "rejected"
                                       ELSE "resolved",
                         ![id].failure = failure,
                         ![id].result = outcome.value,
                         ![id].loaderAfter = loaderActive' ]
    /\ UNCHANGED << tableButLoader, modalVars, registrationVars, feeVars,
                    tabVars, calendarVars >>

\* fetch rejects: no response arrived
fetchRejected(id, message) ==
    /\ id \in 1..Len(apiCalls)
    /\ apiCalls[id].phase = "fetch"
    /\ settle(id, [ thrown |-> TRUE, value |-> catchBlock(Error(message)) ],
              message)

\* response.json() settles and the rest of the try block runs
jsonSettled(id) ==
    /\ id \in 1..Len(apiCalls)
    /\ apiCalls[id].phase = "json"
    /\ LET outcome == tryBlock(apiCalls[id].response)
       IN  settle(id, IF outcome.thrown
                      THEN [ thrown |-> TRUE, value |-> catchBlock(outcome.value) ]
                      ELSE outcome,
                  "none")

NextRequest ==
    \/ request
    \/ \E id \in 1..MaxRequests, status \in HttpStatuses, body \in Bodies :
            fetchResolved(id, status, body)
    \/ \E id \in 1..MaxRequests, message \in FetchErrors :
            fetchRejected(id, message)
    \/ \E id \in 1..MaxRequests : jsonSettled(id)

----------------------------------------------------------------------------
(* Registrations page *)

\* data-status of the tabs
Statuses == { "PENDING", "APPROVED", "REJECTED" }

\* what Utils.serializeForm reads from #registrationFilterForm
FormData ==
    { EmptyObject,
      [ branch |-> "2" ],
      [ branch |-> "2", status |-> "" ] }

\* filters.status = currentStatus
withStatus(form, status) == Spread(form, [ status |-> status ])

registrationHandler(name) ==
    /\ lastOp.op # "new"
    /\ lastOp' = [ op |-> name ]
    /\ UNCHANGED << modalVars, searchVars, requestVars, feeVars, tabVars,
                    calendarVars >>

\* Registrations.initializeDataTable, after the table is constructed
initializeDataTable ==
    /\ lastOp.op = "new"
    /\ setFiltersCall([ status |-> "PENDING" ])
    /\ lastOp' = [ op |-> "initializeDataTable" ]
    /\ UNCHANGED << modalVars, searchVars, pageVars >>

\* the submit handler without filters.status = currentStatus
filterSubmit_formOnly(form) ==
    /\ registrationHandler("filterSubmit")
    /\ setFiltersCall(form)
    /\ UNCHANGED currentStatus

\* submit of #registrationFilterForm
filterSubmit(form) ==
    /\ registrationHandler("filterSubmit")
    /\ setFiltersCall(withStatus(form, currentStatus))
    /\ UNCHANGED currentStatus

\* click of #clearFilters
clearFilters ==
    /\ registrationHandler("clearFilters")
    /\ setFiltersCall([ status |-> currentStatus ])
    /\ UNCHANGED currentStatus

\* click of a tab of #registrationTabs
tabClick(status, form) ==
    /\ registrationHandler("tabClick")
    /\ currentStatus' = status
    /\ setFiltersCall(withStatus(form, currentStatus'))

NextRegistrations ==
    \/ initializeDataTable
    \/ \E form \in FormData : filterSubmit(form)
    \/ clearFilters
    \/ \E status \in Statuses, form \in FormData : tabClick(status, form)
    \/ lastOp.op # "new" /\ refresh
    \/ \E id \in 1..MaxLoads, resp \in Responses : loadDataResolved(id, resp)
    \/ \E id \in 1..MaxLoads : loadDataFailed(id)

----------------------------------------------------------------------------
(* Fees page: the collection form *)

\* due_amount of a due
DueAmounts == { 0, 10 }

\* the dues of the student in the response selectStudent renders
DuesLists == UNION { [ 1..n -> DueAmounts ] : n \in 1..MaxDues }

\* texts typed into a .pay-amount input
AmountTexts == { "", "5", "20" }

\* the number a text of a .pay-amount input stands for
Numerals == ("5" :> 5) @@ ("10" :> 10) @@ ("20" :> 20)

\* parseFloat(text) || 0: NaN and 0 both give 0
parseFloatOr0(text) ==
    IF text \in DOMAIN Numerals THEN Numerals[text] ELSE 0

\* the <tr> selectStudent writes for each due with due_amount > 0, and the
\* checkboxes as setupCollectionForm leaves them
dueRows(list) ==
    SelectSeq([ i \in 1..Len(list) |->
                  [ index   |-> i - 1,
                    max     |-> list[i],
                    checked |-> TRUE,
                    value   |-> ToString(list[i]) ] ],
              LAMBDA row : row.max > 0)

RECURSIVE checkedSum(_, _)
checkedSum(rows, n) ==
    IF n = 0 THEN 0
    ELSE checkedSum(rows, n - 1)
         + (IF rows[n].checked THEN parseFloatOr0(rows[n].value) ELSE 0)

calculateTotal(rows) == checkedSum(rows, Len(rows))

\* the dues form changes and the total is shown again
formChange(rows) ==
    /\ dues' = rows
    /\ totalToPay' = calculateTotal(rows)
    /\ UNCHANGED << collectLog, collectItems, tableVars, modalVars,
                    requestVars, registrationVars, tabVars, calendarVars >>

\* change of one .due-checkbox
checkboxChange(i) ==
    /\ i \in 1..Len(dues)
    /\ formChange([ dues EXCEPT ![i].checked = ~dues[i].checked ])

\* change of #selectAllDues
selectAllChange(checked) ==
    /\ Len(dues) > 0
    /\ formChange([ i \in 1..Len(dues) |-> [ dues[i] EXCEPT !.checked = checked ] ])

\* input into one .pay-amount field
payAmountInput(i, text) ==
    /\ i \in 1..Len(dues)
    /\ LET max == dues[i].max
           val == parseFloatOr0(text)
       IN  formChange([ dues EXCEPT ![i].value =
                            IF val > max THEN ToString(max) ELSE text ])

\* the gathering without the test of the checkbox
collectFeeItems_allDues(rows) ==
    LET picked == SelectSeq(rows, LAMBDA row : parseFloatOr0(row.value) > 0)
    IN  [ k \in 1..Len(picked) |->
            [ index |-> picked[k].index,
              amount |-> parseFloatOr0(picked[k].value) ] ]

\* the items Fees.collectFee gathers from the form
collectFeeItems(rows) ==
    LET picked == SelectSeq(rows, LAMBDA row :
                      row.checked /\ parseFloatOr0(row.value) > 0)
    IN  [ k \in 1..Len(picked) |->
            [ index |-> picked[k].index,
              amount |-> parseFloatOr0(picked[k].value) ] ]

\* Fees.collectFee up to the await of the POST, or to the early return
collectFee ==
    /\ Len(dues) > 0
    /\ Len(collectLog) < MaxCollects
    /\ LET items == collectFeeItems(dues)
       IN  IF Len(items) = 0
           THEN /\ collectLog' = Append(collectLog, "warned")
                /\ UNCHANGED << collectItems, loaderActive >>
           ELSE /\ loaderActive' = TRUE
                /\ collectItems' = items
                /\ collectLog' = Append(collectLog, "pending")
    /\ UNCHANGED << dues, totalToPay, tableButLoader, modalVars, requestVars,
                    registrationVars, tabVars, calendarVars >>

\* a step of a collectFee call after an await
collectStep(id, from, to) ==
    /\ id \in 1..Len(collectLog)
    /\ collectLog[id] = from
    /\ collectLog' = [ collectLog EXCEPT ![id] = to ]
    /\ loaderActive' = FALSE
    /\ UNCHANGED << collectItems, tableButLoader, modalVars, requestVars,
                    registrationVars, tabVars, calendarVars >>

\* the POST succeeded: success toast, Fees.selectStudent is called and awaits
\* the student, the finally block hides the loader
collectSucceeded(id) ==
    /\ collectStep(id, "pending", "reloading")
    /\ UNCHANGED << dues, totalToPay >>

\* the POST failed: error toast, the finally block hides the loader
collectFailed(id) ==
    /\ collectStep(id, "pending", "failed")
    /\ UNCHANGED << dues, totalToPay >>

\* Fees.selectStudent called by collectFee writes the form again
studentLoaded(id, list) ==
    /\ collectStep(id, "reloading", "reloaded")
    /\ dues' = dueRows(list)
    /\ totalToPay' = calculateTotal(dues')

\* Fees.selectStudent called by collectFee fails: the form stays
studentLoadFailed(id) ==
    /\ collectStep(id, "reloading", "reloadFailed")
    /\ UNCHANGED << dues, totalToPay >>

NextCollect ==
    \/ \E i \in 1..MaxDues : checkboxChange(i)
    \/ \E checked \in BOOLEAN : selectAllChange(checked)
    \/ \E i \in 1..MaxDues, text \in AmountTexts : payAmountInput(i, text)
    \/ collectFee
    \/ \E id \in 1..MaxCollects : collectSucceeded(id)
    \/ \E id \in 1..MaxCollects : collectFailed(id)
    \/ \E id \in 1..MaxCollects, list \in DuesLists : studentLoaded(id, list)
    \/ \E id \in 1..MaxCollects : studentLoadFailed(id)

----------------------------------------------------------------------------
(* Fees and attendance pages: tabs and calendar *)

\* href of the tabs whose table is created on the first showing
FeesTabs == { "#feeDues", "#feeTypes", "#feeStructure", "#collectionHistory" }
AttendanceTabs == { "#studentAttendance", "#staffAttendance", "#leaveRequests" }

\* href of a tab that the switch has no case for
OtherTabs == { "#other" }

\* years of new Date().getFullYear() when dashboard.js is evaluated
LoadYears == { 2026 }

\* years the model lets the calendar reach
Years == UNION { (year - YearSpan)..(year + YearSpan) : year \in LoadYears }

\* the DataTable instances created so far are numbered in order of creation
NextInstance ==
    LET made == { 0 } \cup { tabTables[tab].instance : tab \in DOMAIN tabTables }
    IN  1 + CHOOSE n \in made : \A m \in made : m <= n

\* an init...Table function: new DataTable, assigned to the tab's variable,
\* and the first load of the new table
initTable(tab) ==
    /\ tabTables' = [ tabTables EXCEPT ![tab] =
                          [ instance |-> NextInstance, loads |-> 1 ] ]
    /\ constructed' = [ constructed EXCEPT ![tab] = @ + 1 ]

\* a case of the switch without the test of the variable
lazyInit_always(tab) == initTable(tab)

\* a case of the switch: if (!table) init
lazyInit(tab) ==
    IF tabTables[tab].instance = 0
    THEN initTable(tab)
    ELSE UNCHANGED << tabTables, constructed >>

\* Attendance.renderCalendar up to the await of the calendar data
renderCalendar(month, year) ==
    /\ calendarPending < MaxCalendarLoads
    /\ calendarHeader' = [ month |-> month, year |-> year ]
    /\ calendarPending' = calendarPending + 1
    /\ UNCHANGED calendarGrid

\* Attendance.renderCalendar after the await: the days are written for the
\* month and year the variables hold now
calendarLoaded ==
    /\ calendarPending > 0
    /\ calendarPending' = calendarPending - 1
    /\ calendarGrid' = [ month |-> currentMonth, year |-> currentYear ]
    /\ UNCHANGED << currentMonth, currentYear, calendarHeader, navTrail,
                    tabVars, tableVars, modalVars, requestVars,
                    registrationVars, feeVars >>

\* shown.bs.tab on the fees page
feesTabShown(target) ==
    /\ DOMAIN tabTables = FeesTabs
    /\ lastShow' = [ tab |-> target,
                     hadTable |-> target \in FeesTabs
                                  /\ tabTables[target].instance # 0 ]
    /\ IF target \in FeesTabs
       THEN lazyInit(target)
       ELSE UNCHANGED << tabTables, constructed >>
    /\ UNCHANGED << calendarVars, tableVars, modalVars, requestVars,
                    registrationVars, feeVars >>

\* shown.bs.tab on the attendance page
attendanceTabShown(target) ==
    /\ DOMAIN tabTables = AttendanceTabs
    /\ lastShow' = [ tab |-> target,
                     hadTable |-> target \in AttendanceTabs
                                  /\ tabTables[target].instance # 0 ]
    /\ IF target \in AttendanceTabs
       THEN lazyInit(target)
       ELSE UNCHANGED << tabTables, constructed >>
    /\ IF target = "#workingCalendar"
       THEN renderCalendar(currentMonth, currentYear)
       ELSE UNCHANGED << calendarHeader, calendarGrid, calendarPending >>
    /\ UNCHANGED << currentMonth, currentYear, navTrail, tableVars, modalVars,
                    requestVars, registrationVars, feeVars >>

NextTabs ==
    \/ \E target \in FeesTabs \cup OtherTabs : feesTabShown(target)
    \/ \E target \in AttendanceTabs \cup OtherTabs \cup { "#workingCalendar" } :
            attendanceTabShown(target)
    \/ calendarLoaded

\* a month navigation call is recorded with the month and year it found
navigated(op) ==
    /\ navTrail' = LastTwo(Append(navTrail, [ op |-> op, month |-> currentMonth,
                                              year |-> currentYear ]))
    /\ currentYear' \in Years
    /\ renderCalendar(currentMonth', currentYear')
    /\ UNCHANGED << tabVars, tableVars, modalVars, requestVars,
                    registrationVars, feeVars >>

\* nextMonth without the step of the year
nextMonth_sameYear ==
    /\ currentMonth' = IF currentMonth + 1 > 11 THEN 0 ELSE currentMonth + 1
    /\ currentYear' = currentYear
    /\ navigated("nextMonth")

\* Attendance.previousMonth
previousMonth ==
    /\ IF currentMonth - 1 < 0
       THEN currentMonth' = 11 /\ currentYear' = currentYear - 1
       ELSE currentMonth' = currentMonth - 1 /\ currentYear' = currentYear
    /\ navigated("previousMonth")

\* Attendance.nextMonth
nextMonth ==
    /\ IF currentMonth + 1 > 11
       THEN currentMonth' = 0 /\ currentYear' = currentYear + 1
       ELSE currentMonth' = currentMonth + 1 /\ currentYear' = currentYear
    /\ navigated("nextMonth")

NextCalendar ==
    \/ previousMonth
    \/ nextMonth
    \/ calendarLoaded

----------------------------------------------------------------------------
(* The page scripts: state after the scripts have been evaluated *)

requestsIdle == apiCalls = << >>

registrationsLoaded == currentStatus = "PENDING"

\* fees.js before a student is selected: #feeCollectionForm is empty
feesLoaded ==
    /\ dues = << >>
    /\ totalToPay = 0
    /\ collectLog = << >>
    /\ collectItems = << >>

NullTable == [ instance |-> 0, loads |-> 0 ]

\* the table variables of a page, all null
tablesNull(tabs) ==
    /\ tabTables = [ tab \in tabs |-> NullTable ]
    /\ constructed = [ tab \in tabs |-> 0 ]
    /\ lastShow = [ tab |-> "none", hadTable |-> FALSE ]

NoMonth == [ month |-> Absent, year |-> Absent ]

\* dashboard.js evaluated in the given month of the given year
calendarLoadedAt(month, year) ==
    /\ currentMonth = month
    /\ currentYear = year
    /\ calendarHeader = NoMonth
    /\ calendarGrid = NoMonth
    /\ calendarPending = 0
    /\ navTrail = << >>

scriptsLoaded ==
    /\ requestsIdle
    /\ registrationsLoaded
    /\ feesLoaded
    /\ tablesNull({})
    /\ calendarLoadedAt(Absent, Absent)

----------------------------------------------------------------------------
(* DataTable: specification *)

\* empty text of .pagination-info, before the first renderPagination
NoInfo == [ start |-> 0, end |-> 0, total |-> Absent ]

\* the state new DataTable(caller) leaves
constructor(caller) ==
    /\ options = Spread(DefaultOptions, caller)
    /\ currentPage = 1
    /\ totalPages = 1
    /\ sortColumn = Null
    /\ sortDirection = "asc"
    /\ searchQuery = ""
    /\ filters = EmptyObject
    /\ tbody = << >>
    /\ paginationInfo = NoInfo
    /\ paginationLinks = << >>
    /\ sortIcons = [ k \in SortableKeys |-> "fa-sort" ]
    /\ searchBox = ""
    /\ searchTimer = Absent

InitTable ==
    /\ InitModal
    /\ scriptsLoaded
    /\ \E caller \in CallerOptions : constructor(caller)
    /\ loads = << >>
    /\ lastQuery = EmptyObject
    /\ loaderActive = FALSE
    /\ toasts = 0
    /\ lastOp = [ op |-> "new" ]
    /\ lastSettled = [ id |-> 0, ok |-> FALSE ]
    /\ sortTrail = << >>

\* keys of the header cells a page may show
ColumnKeys == {"name", "grade", "photo"}

NextTable ==
    \/ refresh
    \/ \E f \in FilterMaps : setFilters(f)
    \/ \E text \in SearchTexts : searchInput(text)
    \/ \E column \in ColumnKeys : sortClick(column)
    \/ \E i \in 1..(maxVisible + 2) : pageLinkClick(i)
    \/ \E id \in 1..MaxLoads, resp \in Responses : loadDataResolved(id, resp)
    \/ \E id \in 1..MaxLoads : loadDataFailed(id)

vars == << tableVars, modalVars, pageVars >>

SpecTable == InitTable /\ [][NextTable]_vars

----------------------------------------------------------------------------
(* DataTable: one load from any page *)

\* A table whose loads have all settled, the last one answered with
\* page * pageSize rows in all while the table sat on page `page` and was
\* sorted by `column` in `direction`: the state after page - 1 clicks on the
\* next link and the header clicks that select the sort, each answered with
\* that count. The loads of that past are not kept; their rows are of load 0.
settledFiltered(caller, page, column, direction, flt) ==
    LET opts  == Spread(DefaultOptions, caller)
        total == page * opts.pageSize
        n     == Min(opts.pageSize, MaxPageRows)
    IN  /\ options = opts
        /\ currentPage = page
        /\ totalPages = CeilDiv(total, opts.pageSize)
        /\ sortColumn = column
        /\ sortDirection = direction
        /\ searchQuery = ""
        /\ filters = flt
        /\ tbody = renderData(Rows(0, "results", n, TypicalRow))
        /\ paginationInfo = PaginationInfo(page, opts.pageSize, total)
        /\ paginationLinks = PaginationLinks(page, totalPages)
        /\ sortIcons = IF column = Null
                       THEN [ k \in SortableKeys |-> "fa-sort" ]
                       ELSE updateSortIcons(column, direction)
        /\ searchBox = ""
        /\ searchTimer = Absent
        /\ loads = << >>
        /\ lastQuery = loadDataParams(page, "", column, direction, flt)
        /\ loaderActive = FALSE
        /\ toasts = 0
        /\ lastOp = [ op |-> "response", id |-> 0 ]
        /\ lastSettled = [ id |-> 0, ok |-> FALSE ]
        /\ sortTrail = << >>

settledTable(caller, page, column, direction) ==
    settledFiltered(caller, page, column, direction, EmptyObject)

InitRender ==
    /\ InitModal
    /\ scriptsLoaded
    /\ \E caller \in CallerOptions, page \in 1..MaxPage :
            settledTable(caller, page, Null, "asc")

\* the envelopes of SpecRender: also those with rows under both keys
RenderResponses ==
    ResponsesUpTo(MaxPageRows, MaxTotal)
    \cup [ results : 0..1, data : 0..2, count : {Absent, 2} ]

\* one reload or one page change, and its response
NextRender ==
    \/ Len(loads) = 0 /\ refresh
    \/ Len(loads) = 0 /\ \E i \in 1..(maxVisible + 2) : pageLinkClick(i)
    \/ \E resp \in RenderResponses : loadDataResolved(1, resp)
    \/ loadDataFailed(1)

SpecRender == InitRender /\ [][NextRender]_vars

----------------------------------------------------------------------------
(* DataTable: header clicks from any sort state *)

InitSort ==
    /\ InitModal
    /\ scriptsLoaded
    /\ \E caller \in CallerOptions, column \in ColumnKeys \cup {Null},
          direction \in {"asc", "desc"} :
            /\ column = Null => direction = "asc"
            /\ settledTable(caller, 1, column, direction)
            /\ column \in SortableKeys \cup {Null}

NextSort ==
    \/ \E column \in ColumnKeys : sortClick(column)
    \/ refresh
    \/ \E id \in 1..MaxLoads, resp \in Responses : loadDataResolved(id, resp)
    \/ \E id \in 1..MaxLoads : loadDataFailed(id)

SpecSort == InitSort /\ [][NextSort]_vars

----------------------------------------------------------------------------
(* DataTable: the cells of the rows *)

\* the row objects of the responses of SpecCells: a name that is a text, an
\* empty text, null or missing, and a grade that is 7, 0 or missing
CellFields ==
    LET names  == { JsValue("string", "Ali"), JsValue("string", ""),
                    JsValue("null", Null) }
        grades == { JsValue("number", "7"), JsValue("number", "0") }
    IN  [ name : names, grade : grades ] \cup [ name : names ]
          \cup [ grade : grades ] \cup { EmptyObject }

CellResponses ==
    { [ results |-> n, data |-> Absent, count |-> n, fields |-> f ] :
        n \in 1..MaxRows, f \in CellFields }

NextCells ==
    \/ refresh
    \/ \E id \in 1..MaxLoads, resp \in CellResponses : loadDataResolved(id, resp)
    \/ \E id \in 1..MaxLoads : loadDataFailed(id)

SpecCells == InitTable /\ [][NextCells]_vars

----------------------------------------------------------------------------
(* DataTable: the search box against the clock *)

NextSearch ==
    \/ \E text \in SearchTexts : executedFunction(text)
    \/ tick
    \/ later
    \/ \E id \in 1..MaxLoads, resp \in Responses : loadDataResolved(id, resp)
    \/ \E id \in 1..MaxLoads : loadDataFailed(id)

SpecSearch == InitTable /\ [][NextSearch]_vars

----------------------------------------------------------------------------
(* Modal: specification *)

\* the shared dialog on a page whose table has just been constructed
\* a table that was constructed and nothing else
idleTable ==
    /\ constructor(EmptyObject)
    /\ loads = << >>
    /\ lastQuery = EmptyObject
    /\ loaderActive = FALSE
    /\ toasts = 0
    /\ lastOp = [ op |-> "new" ]
    /\ lastSettled = [ id |-> 0, ok |-> FALSE ]
    /\ sortTrail = << >>

InitModalPage ==
    /\ InitModal
    /\ scriptsLoaded
    /\ idleTable

SpecModal == InitModalPage /\ [][NextModal]_vars

\* the registrations page: the state new DataTable leaves in
\* initializeDataTable, or the table settled after the click of a tab
InitRegistrations ==
    /\ InitModal
    /\ requestsIdle
    /\ feesLoaded
    /\ tablesNull({})
    /\ calendarLoadedAt(Absent, Absent)
    /\ \E caller \in CallerOptions :
        \/ /\ constructor(caller)
           /\ currentStatus = "PENDING"
           /\ loads = << >>
           /\ lastQuery = EmptyObject
           /\ loaderActive = FALSE
           /\ toasts = 0
           /\ lastOp = [ op |-> "new" ]
           /\ lastSettled = [ id |-> 0, ok |-> FALSE ]
           /\ sortTrail = << >>
        \/ \E status \in Statuses, form \in FormData :
              /\ settledFiltered(caller, 1, Null, "asc", withStatus(form, status))
              /\ currentStatus = status

SpecRegistrations == InitRegistrations /\ [][NextRegistrations]_vars

\* the fees page after Fees.selectStudent has written the collection form of
\* a student who has dues
InitCollect ==
    /\ InitModal
    /\ idleTable
    /\ requestsIdle
    /\ registrationsLoaded
    /\ \E list \in DuesLists :
          /\ Len(dueRows(list)) > 0
          /\ dues = dueRows(list)
          /\ totalToPay = calculateTotal(dues)
    /\ collectLog = << >>
    /\ collectItems = << >>
    /\ tablesNull(FeesTabs)
    /\ calendarLoadedAt(Absent, Absent)

SpecCollect == InitCollect /\ [][NextCollect]_vars

\* the fees page or the attendance page after its init: no tab shown yet
InitTabs ==
    /\ InitModal
    /\ idleTable
    /\ requestsIdle
    /\ registrationsLoaded
    /\ feesLoaded
    /\ \/ tablesNull(FeesTabs) /\ calendarLoadedAt(Absent, Absent)
       \/ /\ tablesNull(AttendanceTabs)
          /\ \E month \in 0..11, year \in LoadYears :
                calendarLoadedAt(month, year)

SpecTabs == InitTabs /\ [][NextTabs]_vars

\* the attendance page, loaded in any month
InitCalendar ==
    /\ InitModal
    /\ idleTable
    /\ requestsIdle
    /\ registrationsLoaded
    /\ feesLoaded
    /\ tablesNull(AttendanceTabs)
    /\ \E month \in 0..11, year \in LoadYears : calendarLoadedAt(month, year)

SpecCalendar == InitCalendar /\ [][NextCalendar]_vars

\* API_CONFIG.request on a page whose table is idle
SpecRequest == InitModalPage /\ [][NextRequest]_vars

----------------------------------------------------------------------------
(* Properties of the pagination and of the table body *)

\* the numbered links of the pagination on screen
NumberedLinks == SelectSeq(paginationLinks, LAMBDA l : l.kind = "number")

\* a successful load of this behaviour has rendered last
RenderedByLoad == lastSettled.id >= 1 /\ lastSettled.ok

\* the state right after the continuation of a successful load
JustRendered == RenderedByLoad /\ lastOp = [ op |-> "response", id |-> lastSettled.id ]

\* C1: after renderPagination(N) with page size P, for every P >= 1, N >= 0
\* and current page, totalPages is ceil(N / P), the least t with t * P >= N,
\* and the numbered links are a contiguous range of at most 5 pages, each of
\* them in 1..totalPages.
C1_WindowWithinPages ==
    RenderedByLoad =>
        /\ totalPages * options.pageSize >= lastSettled.count
        /\ (totalPages - 1) * options.pageSize < lastSettled.count
        /\ Len(NumberedLinks) <= 5
        /\ \A i \in 1..Len(NumberedLinks) :
              /\ NumberedLinks[i].page \in 1..totalPages
              /\ i > 1 => NumberedLinks[i].page = NumberedLinks[i - 1].page + 1

\* C1 witness: a full window of 5 links that starts after page 1 and ends
\* before the last page, for a page size above 1
C1_Witness ==
    /\ RenderedByLoad
    /\ options.pageSize > 1
    /\ Len(NumberedLinks) = 5
    /\ NumberedLinks[1].page > 1
    /\ NumberedLinks[5].page < totalPages

\* C8: in the pagination just rendered the previous link is disabled whenever
\* the current page is the first one and the next link is disabled whenever
\* no page follows the current one, for every N >= 0 (also N = 0).
C8_PrevNextDisabledAtBounds ==
    JustRendered =>
        /\ currentPage = 1 => paginationLinks[1].disabled
        /\ currentPage >= totalPages =>
              paginationLinks[Len(paginationLinks)].disabled

\* the response that arrived last held one row and reported count 1, and the
\* table has the default page size
OneRowOfOne ==
    /\ JustRendered
    /\ Len(lastSettled.rows) = 1
    /\ lastSettled.count = 1
    /\ options.pageSize = 20

\* C9 as claimed: one row with count 1 at page size 20 renders 1 data row,
\* "Showing 1 to 1 of 1 entries", and no link but a disabled previous and a
\* disabled next link.
C9_OnlyPrevAndNext ==
    OneRowOfOne =>
        /\ Len(tbody) = 1 /\ tbody[1].type = "data"
        /\ paginationInfo = [ start |-> 1, end |-> 1, total |-> 1 ]
        /\ Len(paginationLinks) = 2
        /\ paginationLinks[1].kind = "prev" /\ paginationLinks[1].disabled
        /\ paginationLinks[2].kind = "next" /\ paginationLinks[2].disabled

\* C9 as amended: when that response arrives while the table is on page 1,
\* the table renders 1 data row, the info reads "Showing 1 to 1 of 1 entries",
\* and the links are a disabled previous link, the active link of page 1 and
\* a disabled next link.
C9_OneRowOnPageOne ==
    (OneRowOfOne /\ currentPage = 1) =>
        /\ Len(tbody) = 1 /\ tbody[1].type = "data"
        /\ paginationInfo = [ start |-> 1, end |-> 1, total |-> 1 ]
        /\ Len(paginationLinks) = 3
        /\ paginationLinks[1].kind = "prev" /\ paginationLinks[1].disabled
        /\ paginationLinks[2] = [ kind |-> "number", page |-> 1,
                                  disabled |-> FALSE, active |-> TRUE ]
        /\ paginationLinks[3].kind = "next" /\ paginationLinks[3].disabled

\* C9 witness: that response has been rendered on page 1
C9_Witness == OneRowOfOne /\ currentPage = 1

\* C10: after a response with an empty result list tbody holds one row, the
\* placeholder, whose cell spans as many columns as there are column
\* descriptors and shows the configured empty message; after a response with
\* k >= 1 rows tbody holds those k rows, in order, and no placeholder.
C10_PlaceholderOrRows ==
    RenderedByLoad =>
        IF Len(lastSettled.rows) = 0
        THEN /\ Len(tbody) = 1
             /\ tbody[1].type = "placeholder"
             /\ tbody[1].colspan = Len(options.columns)
             /\ tbody[1].message = options.emptyMessage
        ELSE /\ Len(tbody) = Len(lastSettled.rows)
             /\ \A i \in 1..Len(tbody) :
                   tbody[i].type = "data" /\ tbody[i].row = lastSettled.rows[i]

\* C10 witness: the placeholder of a table of three columns with a message of
\* its own, put where rows of an earlier load stood
C10_Witness ==
    /\ RenderedByLoad
    /\ Len(lastSettled.rows) = 0
    /\ Len(options.columns) = 3
    /\ options.emptyMessage = "No students found"
    /\ tbody[1].type = "placeholder"

----------------------------------------------------------------------------
(* Properties of loading, filtering and sorting *)

\* the rows shown by the data rows on screen
ShownRows ==
    LET d == SelectSeq(tbody, LAMBDA tr : tr.type = "data")
    IN  [ i \in 1..Len(d) |-> d[i].row ]

\* C2: whatever the order in which overlapping loads were issued, the rows on
\* screen are those of the response that arrived last and the pagination
\* shows the count of that response; a failed last response leaves no rows.
C2_LastResponseWins ==
    lastSettled.id >= 1 =>
        IF lastSettled.ok
        THEN /\ ShownRows = lastSettled.rows
             /\ paginationInfo.total = lastSettled.count
             /\ totalPages * options.pageSize >= lastSettled.count
             /\ (totalPages - 1) * options.pageSize < lastSettled.count
        ELSE ShownRows = << >>

\* C2 witness: two loads overlapped, the second one issued was answered first,
\* and the rows on screen are those of the first one issued
C2_Witness ==
    /\ loads = << "fulfilled", "fulfilled" >>
    /\ lastSettled.id = 1
    /\ lastSettled.ok
    /\ Len(ShownRows) = 1
    /\ ShownRows[1].load = 1
    /\ ShownRows[1].index = 1

\* C3: the step in which a request fails shows one error toast, leaves the
\* empty-state row in tbody, issues no request, and fulfils the promise of
\* that load (it does not reject); no other load is touched.
C3_FailureIsContained ==
    [][ (lastSettled' # lastSettled /\ ~lastSettled'.ok) =>
            /\ toasts' = toasts + 1
            /\ tbody' = << [ type    |-> "placeholder",
                             colspan |-> Len(options.columns),
                             message |-> options.emptyMessage ] >>
            /\ Len(loads') = Len(loads)
            /\ lastQuery' = lastQuery
            /\ loads'[lastSettled'.id] = "fulfilled"
            /\ \A id \in 1..Len(loads) :
                  id # lastSettled'.id => loads'[id] = loads[id] ]_vars

\* C3 witness: a load has failed while another one was still pending
C3_Witness ==
    /\ lastSettled.id >= 1
    /\ ~lastSettled.ok
    /\ lastOp.op = "response"
    /\ toasts = 1
    /\ Pending # {}

\* C4: right after setFilters(f) the filters are f, currentPage is 1, and the
\* request just issued carries page 1 and every key of f with its value.
C4_SetFiltersRequestsPageOne ==
    lastOp.op = "setFilters" =>
        /\ filters = lastOp.arg
        /\ currentPage = 1
        /\ lastQuery["page"] = "1"
        /\ \A k \in DOMAIN lastOp.arg : lastQuery[k] = lastOp.arg[k]

\* the rule of one header click, for the click made last: toggle when the
\* column was the sort column, else select it ascending; one load is issued
SortClickRule ==
    Len(sortTrail) >= 1 =>
        LET last == sortTrail[Len(sortTrail)]
        IN  /\ sortColumn = last.column
            /\ sortDirection =
                  IF last.columnBefore = last.column
                  THEN (IF last.directionBefore = "asc" THEN "desc" ELSE "asc")
                  ELSE "asc"
            /\ Len(loads) = last.loadsBefore + 1

\* the two clicks made last were on the same column, the direction being
\* ascending before the first of them
TwoClicksFromAscending ==
    /\ Len(sortTrail) = 2
    /\ sortTrail[1].column = sortTrail[2].column
    /\ sortTrail[1].directionBefore = "asc"

\* C5 as claimed: the rule of one click holds, and two consecutive clicks on
\* the same column, starting from ascending, end in ascending.
C5_TwoClicksReturnToAscending ==
    /\ SortClickRule
    /\ TwoClicksFromAscending => sortDirection = "asc"

\* C5 as amended: the rule of one click holds, and two consecutive clicks on
\* the column that is already the sort column, starting from ascending, end
\* in ascending.
C5_TwoTogglesReturnToAscending ==
    /\ SortClickRule
    /\ (TwoClicksFromAscending /\ sortTrail[1].columnBefore = sortTrail[1].column)
          => sortDirection = "asc"

\* C5 witness: two clicks on the sort column, starting from ascending
C5_Witness ==
    /\ TwoClicksFromAscending
    /\ sortTrail[1].columnBefore = sortTrail[1].column
    /\ lastOp.op = "sort"

----------------------------------------------------------------------------
(* Properties of the modal *)

\* C6: after two Modal.show calls in succession the dialog is displayed and
\* its title, body, footer buttons and size class are those of the second
\* call's configuration (the defaults where it gives none) and no others.
C6_SecondShowReplacesFirst ==
    (Len(modalHist) = 2 /\ modalHist[1].op = "show" /\ modalHist[2].op = "show") =>
        LET config == Spread(ModalDefaults, modalHist[2].options)
        IN  /\ modalVisible
            /\ modalTitle = config.title
            /\ modalBody = config.body
            /\ modalFooter = config.buttons
            /\ modalSizeClasses =
                  IF config.size = "md" THEN {} ELSE {SizeClass(config.size)}

\* C6 witness: a large dialog with two buttons, then a dialog of defaults
C6_Witness ==
    /\ Len(modalHist) = 2
    /\ modalHist[1] = [ op |-> "show", via |-> "Modal.show", options |-> DetailsOptions ]
    /\ modalHist[2] = [ op |-> "show", via |-> "Modal.show", options |-> EmptyObject ]
    /\ Len(modalFooter) = 1
    /\ modalSizeClasses = {}

\* a button of a confirmation dialog has just been clicked
ConfirmDialogClicked ==
    /\ Len(modalHist) = 2
    /\ modalHist[1].op = "show"
    /\ modalHist[1].via \in {"Modal.confirm", "Utils.confirm"}
    /\ modalHist[2].op = "click"

\* C7: in a confirmation dialog of Modal.confirm or Utils.confirm a click on
\* Cancel hides the dialog and does not call onConfirm; a click on Confirm
\* hides the dialog and then calls onConfirm, once, the dialog being hidden.
C7_ConfirmCallsBackAfterHide ==
    ConfirmDialogClicked =>
        /\ ~modalVisible
        /\ modalHist[2].label = "Cancel" =>
              \A i \in 1..Len(clickLog) : clickLog[i].did # "onConfirm"
        /\ modalHist[2].label = "Confirm" =>
              clickLog = << [ did |-> "Modal.hide", visible |-> TRUE ],
                            [ did |-> "onConfirm", visible |-> FALSE ] >>

\* C7 witness: Confirm has been clicked in a dialog of Modal.confirm
C7_Witness ==
    /\ ConfirmDialogClicked
    /\ modalHist[1].via = "Modal.confirm"
    /\ modalHist[2].label = "Confirm"
    /\ Len(clickLog) = 2

----------------------------------------------------------------------------
(* Properties of the request *)

\* a handler that always calls loadData has run last
LoadJustIssued == lastOp.op \in {"refresh", "setFilters", "search", "sort"}

\* C11: the request just issued by loadData carries page = currentPage,
\* page_size = the configured page size, search = searchQuery, sort_by =
\* sortColumn and sort_order = sortDirection as they are at the call, and
\* every key of the active filters with its value, whatever the filters are.
C11_RequestCarriesTableState ==
    LoadJustIssued =>
        /\ lastQuery["page"] = ToString(currentPage)
        /\ lastQuery["page_size"] = ToString(options.pageSize)
        /\ lastQuery["search"] = searchQuery
        /\ lastQuery["sort_by"] = sortColumn
        /\ lastQuery["sort_order"] = sortDirection
        /\ \A k \in DOMAIN filters : lastQuery[k] = filters[k]

\* C12: while a burst of input events is going on (the timeout of the
\* debounced handler is running) the handler has issued no load; when the
\* timeout expires, 500 ms after the last event, one load is issued with
\* searchQuery set to the final text of the input and currentPage reset to 1.
C12_BurstLoadsFinalValue ==
    /\ (searchTimer # Absent /\ searchTimer > 0) => lastOp.op # "search"
    /\ lastOp.op = "search" =>
          /\ searchTimer = Absent
          /\ searchQuery = searchBox
          /\ lastQuery["search"] = searchBox
          /\ currentPage = 1
          /\ lastQuery["page"] = "1"

----------------------------------------------------------------------------
(* Properties of the response and of the cells *)

\* C13: after a successful response the data rows on screen are the rows of
\* the array under `results` if the response has that key, else those under
\* `data` if it has that key, else none; the total shown is `count`, 0 when
\* the response has no `count`; no row of an earlier load remains.
C13_RowsFromResultsElseData ==
    RenderedByLoad =>
        LET resp  == lastSettled.response
            under == IF resp.results # Absent THEN "results"
                     ELSE IF resp.data # Absent THEN "data"
                     ELSE "none"
            n     == IF resp.results # Absent THEN resp.results
                     ELSE IF resp.data # Absent THEN resp.data
                     ELSE 0
        IN  /\ Len(ShownRows) = n
            /\ \A i \in 1..Len(ShownRows) :
                  /\ ShownRows[i].load = lastSettled.id
                  /\ ShownRows[i].under = under
                  /\ ShownRows[i].index = i
            /\ n = 0 => (Len(tbody) = 1 /\ tbody[1].type = "placeholder")
            /\ paginationInfo.total = (IF resp.count = Absent THEN 0 ELSE resp.count)
            /\ totalPages =
                  CeilDiv(IF resp.count = Absent THEN 0 ELSE resp.count,
                          options.pageSize)

\* C13 witness: a response with an empty `results` array, two rows under
\* `data` and no `count` has replaced the rows of the load before
C13_Witness ==
    /\ RenderedByLoad
    /\ lastSettled.response = [ results |-> 0, data |-> 2, count |-> Absent ]
    /\ ShownRows = << >>
    /\ paginationInfo.total = 0

----------------------------------------------------------------------------
(* Properties of the page-link window and of the table state *)

\* C14: in the pagination just rendered, whenever 1 <= currentPage <=
\* totalPages, the numbered links are min(5, totalPages) in number, the link
\* of the current page is among them and is the only active one, and when
\* currentPage - 2 >= 1 and currentPage + 2 <= totalPages (the window is cut
\* by neither bound) the current page is the middle link.
C14_WindowCentredOnCurrentPage ==
    (JustRendered /\ 1 <= currentPage /\ currentPage <= totalPages) =>
        /\ Len(NumberedLinks) = Min(5, totalPages)
        /\ \E i \in 1..Len(NumberedLinks) : NumberedLinks[i].page = currentPage
        /\ \A i \in 1..Len(NumberedLinks) :
              NumberedLinks[i].active <=> (NumberedLinks[i].page = currentPage)
        /\ (currentPage - 2 >= 1 /\ currentPage + 2 <= totalPages) =>
              /\ Len(NumberedLinks) = 5
              /\ NumberedLinks[3].page = currentPage

\* C14 witness: a window of 5 links that lies strictly inside 1..totalPages,
\* the current page in its middle
C14_Witness ==
    /\ JustRendered
    /\ options.pageSize > 1
    /\ currentPage - 2 > 1
    /\ currentPage + 2 < totalPages
    /\ NumberedLinks[3].page = currentPage
    /\ NumberedLinks[3].active

\* C15: in every reachable state of the table, after any sequence of
\* page-link clicks, header clicks, searches, setFilters, refresh calls and
\* responses, currentPage is an integer >= 1 and sortDirection is "asc" or
\* "desc".
C15_PageAndDirectionWellFormed ==
    /\ currentPage \in Nat
    /\ currentPage >= 1
    /\ sortDirection \in {"asc", "desc"}

\* C15 witness: a click on a page link has moved the table off page 1
C15_Witness ==
    /\ lastOp.op = "page"
    /\ currentPage >= 2
    /\ Len(loads) = 2

\* C16: a refresh step issues exactly one load, leaves currentPage,
\* sortColumn, sortDirection, searchQuery and filters as they were, and, a
\* load having been issued before, sends a request with the same parameters
\* as the request before it.
C16_RefreshReloadsSameState ==
    [][ (lastOp'.op = "refresh" /\ Len(loads') # Len(loads)) =>
            /\ Len(loads') = Len(loads) + 1
            /\ loads'[Len(loads')] = "pending"
            /\ \A id \in 1..Len(loads) : loads'[id] = loads[id]
            /\ UNCHANGED << currentPage, sortColumn, sortDirection,
                            searchQuery, filters >>
            /\ Len(loads) > 0 => lastQuery' = lastQuery ]_vars

\* C16 witness: a refresh of a table that has filters, after the load that
\* setFilters issued
C16_Witness ==
    /\ lastOp.op = "refresh"
    /\ Len(loads) = 2
    /\ DOMAIN filters # {}
    /\ \A k \in DOMAIN filters : lastQuery[k] = filters[k]

\* the field of a row under a key is absent: the row has no such key, or the
\* value is undefined, null or the empty text
AbsentField(row, key) ==
    \/ key \notin DOMAIN row.fields
    \/ row.fields[key].type \in {"undefined", "null"}
    \/ row.fields[key] = JsValue("string", "")

\* C17: every cell of every data row shows the result of the column's
\* render(row) when the column has a render function, else the row's value
\* under the column key, and the dash when that value is absent.
C17_CellShowsValueOrDash ==
    \A r \in 1..Len(tbody) :
        tbody[r].type = "data" =>
            \A c \in 1..Len(options.columns) :
                LET col == options.columns[c]
                    row == tbody[r].row
                IN  tbody[r].cells[c] =
                        IF col.render THEN "markup"
                        ELSE IF AbsentField(row, col.key) THEN "-"
                        ELSE row.fields[col.key].text

----------------------------------------------------------------------------
(* Properties of the modal: defaults, callbacks and hide *)

\* the Modal call or click made last
LastModalOp == modalHist[Len(modalHist)]

\* C18: right after Modal.show(options) every option the caller gave is in
\* effect and every option it omitted has its default: without buttons the
\* footer is one "Close" button, without size the dialog has no size class,
\* without closeOnBackdrop the dialog closes on a backdrop click (and on
\* Escape), without title or body these are "Modal" and empty; and a click
\* on that "Close" button hides the dialog.
C18_OmittedOptionsTakeDefaults ==
    /\ (Len(modalHist) >= 1 /\ LastModalOp.op = "show") =>
          LET opts == LastModalOp.options
              has(k) == k \in DOMAIN opts
          IN  /\ modalVisible
              /\ modalTitle = IF has("title") THEN opts.title ELSE "Modal"
              /\ modalBody = IF has("body") THEN opts.body ELSE Html("")
              /\ modalFooter =
                    IF has("buttons") THEN opts.buttons
                    ELSE << [ label |-> "Close", class |-> "btn-secondary",
                              onClick |-> << "Modal.hide" >> ] >>
              /\ modalSizeClasses =
                    IF has("size") /\ opts.size # "md"
                    THEN {SizeClass(opts.size)} ELSE {}
              /\ modalBackdrop =
                    IF has("closeOnBackdrop") /\ ~opts.closeOnBackdrop
                    THEN [ backdrop |-> "static", keyboard |-> FALSE ]
                    ELSE [ backdrop |-> "true", keyboard |-> TRUE ]
    /\ ( /\ Len(modalHist) = 2
         /\ modalHist[1].op = "show"
         /\ "buttons" \notin DOMAIN modalHist[1].options
         /\ modalHist[2] = [ op |-> "click", label |-> "Close" ] )
          => ~modalVisible

\* C18 witness: a dialog shown with no option at all, after another dialog,
\* has been closed by its "Close" button
C18_Witness ==
    /\ Len(modalHist) = 2
    /\ modalHist[1] = [ op |-> "show", via |-> "Modal.show", options |-> EmptyObject ]
    /\ modalHist[2] = [ op |-> "click", label |-> "Close" ]
    /\ instance = 2
    /\ modalTitle = "Modal"
    /\ modalSizeClasses = {}
    /\ ~modalVisible

\* C19: when a dialog is shown or hidden, the event runs no callback that
\* was given to an earlier call of show, and it runs each callback of the show
\* that displayed the dialog at most once.
C19_NoCallbackOfEarlierShow ==
    /\ \A i \in 1..Len(invoked.calls) :
          invoked.calls[i].show >= invoked.event.show
    /\ \A i, j \in 1..Len(invoked.calls) :
          invoked.calls[i] = invoked.calls[j] => i = j

\* C20: a call of Modal.hide() leaves no dialog displayed; with a dialog
\* displayed it hides that dialog and changes nothing else of it; with no
\* dialog ever shown (Modal.instance is null) it changes nothing at all.
C20_HideDismissesOrDoesNothing ==
    [][ (modalHist' # modalHist /\ modalHist'[Len(modalHist')].op = "hide") =>
            /\ ~modalVisible'
            /\ UNCHANGED << modalTitle, modalBody, modalSizeClasses,
                            modalFooter, modalBackdrop, instance,
                            shownHandlers, hiddenHandlers, clickLog >>
            /\ instance = 0 => UNCHANGED << modalVisible, modalEvents >>
            /\ (instance # 0 /\ modalVisible) =>
                  modalEvents' = Append(modalEvents,
                                        [ type |-> "hidden.bs.modal",
                                          show |-> instance ]) ]_vars

\* C20 witness: Modal.hide() has hidden the dialog of the second show
C20_Witness ==
    /\ Len(modalHist) = 2
    /\ modalHist[1].op = "show"
    /\ modalHist[2].op = "hide"
    /\ instance = 2
    /\ ~modalVisible

----------------------------------------------------------------------------
(* Properties of the loader and of the pagination across loads *)

\* C22: while a request issued by loadData is unresolved the global loader is
\* active, also when loads overlap and one of them settles before the others.
C22_LoaderActiveWhilePending ==
    Pending # {} => loaderActive

\* C26: whenever every request issued by loadData has resolved or failed, the
\* global loader is inactive.
C26_LoaderInactiveWhenSettled ==
    (Len(loads) >= 1 /\ Pending = {}) => ~loaderActive

\* C26 witness: two overlapping loads have both settled, the one that settled
\* last by a failure
C26_Witness ==
    /\ Len(loads) = 2
    /\ Pending = {}
    /\ lastSettled.id = 1
    /\ ~lastSettled.ok
    /\ ~loaderActive

\* C23: the step in which a load fails leaves totalPages, the text of the
\* pagination info and the page links as they were, and puts the empty-state
\* row in the row area.
C23_FailureKeepsPagination ==
    [][ (lastSettled' # lastSettled /\ ~lastSettled'.ok) =>
            /\ UNCHANGED << totalPages, paginationInfo, paginationLinks >>
            /\ Len(tbody') = 1
            /\ tbody'[1].type = "placeholder" ]_vars

\* C23 witness: a load has failed on a table whose pagination shows several
\* pages and 6 entries
C23_Witness ==
    /\ lastSettled.id >= 1
    /\ ~lastSettled.ok
    /\ tbody[1].type = "placeholder"
    /\ totalPages = 3
    /\ paginationInfo.total = 6
    /\ Len(paginationLinks) = 5

\* C24: right after a successful load that reports a count N > 0, totalPages
\* is ceil(N / pageSize) and currentPage <= totalPages.
C24_PageWithinTotalPages ==
    (JustRendered /\ lastSettled.count > 0) =>
        /\ totalPages = CeilDiv(lastSettled.count, options.pageSize)
        /\ currentPage <= totalPages

\* C25: a click on a pagination link whose target page is below 1, above
\* totalPages or the current page changes no table state and issues no
\* request; a click on any other link sets currentPage to the target, issues
\* exactly one load and changes nothing else of the table state.
C25_PageLinkClickRule ==
    [][ lastOp'.op = "page" =>
            LET target == paginationLinks[lastOp'.link].page
            IN  /\ IF target < 1 \/ target > totalPages \/ target = currentPage
                   THEN UNCHANGED << currentPage, loads, lastQuery, loaderActive >>
                   ELSE /\ currentPage' = target
                        /\ Len(loads') = Len(loads) + 1
                        /\ loads'[Len(loads')] = "pending"
                        /\ \A id \in 1..Len(loads) : loads'[id] = loads[id]
                /\ UNCHANGED << options, totalPages, sortColumn, sortDirection,
                                searchQuery, filters, tbody, paginationInfo,
                                paginationLinks, toasts >> ]_vars

\* C25 witness: a click on the numbered link of page 3 has moved the table
\* from a later page to page 3 and issued one load, which is pending
C25_Witness ==
    /\ lastOp.op = "page"
    /\ paginationLinks[lastOp.link].kind = "number"
    /\ paginationLinks[lastOp.link].page = 3
    /\ currentPage = 3
    /\ totalPages > 3
    /\ Len(loads) = 1
    /\ loads[1] = "pending"

----------------------------------------------------------------------------
(* Properties of API_CONFIG.request *)

\* C21: a call of API_CONFIG.request that resolved did so with the parsed
\* body of a successful response; a call that rejected did so with an
\* envelope that has a status and a message, the status being the HTTP status
\* when a response with an HTTP error status arrived and 0 when no response
\* arrived; the loader is hidden when a call settles.
C21_RequestEnvelope ==
    \A id \in 1..Len(apiCalls) :
        LET call == apiCalls[id]
        IN  /\ call.phase = "resolved" =>
                    /\ ok(call.response.status)
                    /\ call.result.data = call.response.body
            /\ call.phase = "rejected" =>
                    /\ call.result.status # Absent
                    /\ call.result.message # ""
            /\ (call.phase = "rejected" /\ call.response # NoResponse
                    /\ ~ok(call.response.status)) =>
                    call.result.status = call.response.status
            /\ (call.phase = "rejected" /\ call.response = NoResponse) =>
                    call.result.status = 0
            /\ call.phase \in {"resolved", "rejected"} => ~call.loaderAfter

----------------------------------------------------------------------------
(* Properties of the registrations page *)

\* C27: once the registrations table is initialised, after any tab clicks,
\* filter submissions and clear clicks the table's status filter is the
\* status of the selected tab, and the request issued last asks for it.
C27_StatusFilterIsCurrentTab ==
    lastOp.op # "new" =>
        /\ "status" \in DOMAIN filters
        /\ filters.status = currentStatus
        /\ Len(loads) >= 1 => lastQuery.status = currentStatus

\* C27 witness: on a tab other than the first, the form was submitted with a
\* status field of its own, and the request asks for the tab's status
C27_Witness ==
    /\ lastOp.op = "filterSubmit"
    /\ currentStatus = "REJECTED"
    /\ filters = [ branch |-> "2", status |-> "REJECTED" ]
    /\ Len(loads) = 2
    /\ lastQuery.status = "REJECTED"

----------------------------------------------------------------------------
(* Properties of the fee collection form *)

\* the dues of the form that are checked and have a pay amount above 0
Payable == { i \in 1..Len(dues) :
                dues[i].checked /\ parseFloatOr0(dues[i].value) > 0 }

\* C28: a call of Fees.collectFee sends no request and shows the warning when
\* no checked due has a pay amount above 0; otherwise it sends one request,
\* whose items are the checked dues with a pay amount above 0, one item each,
\* with the due's index and the amount entered.
C28_CollectSendsCheckedDues ==
    [][ Len(collectLog') = Len(collectLog) + 1 =>
            IF Payable = {}
            THEN /\ collectLog'[Len(collectLog')] = "warned"
                 /\ UNCHANGED << collectItems, loaderActive >>
            ELSE /\ collectLog'[Len(collectLog')] = "pending"
                 /\ Len(collectItems') = Cardinality(Payable)
                 /\ \A i \in Payable : \E k \in 1..Len(collectItems') :
                        /\ collectItems'[k].index = dues[i].index
                        /\ collectItems'[k].amount = parseFloatOr0(dues[i].value)
                 /\ \A k \in 1..Len(collectItems') : \E i \in Payable :
                        collectItems'[k].index = dues[i].index ]_vars

\* C28 witness: of two dues the first is checked with 5 entered and the second
\* is not checked, and the request sent has the first due alone as its items
C28_Witness ==
    /\ Len(dues) = 2
    /\ dues[1].checked /\ dues[1].value = "5"
    /\ ~dues[2].checked /\ dues[2].value = "10"
    /\ collectLog = << "pending" >>
    /\ collectItems = << [ index |-> 0, amount |-> 5 ] >>

----------------------------------------------------------------------------
(* Properties of the tabs and of the calendar *)

\* C29: in whatever order and however often the tabs of the fees page and of
\* the attendance page are shown, each tab's table is constructed at most
\* once: showing a tab that has its table leaves the table, its instance and
\* the number of constructions as they were, and showing a tab that has none
\* constructs it once.
C29_TableConstructedOnce ==
    /\ \A tab \in DOMAIN tabTables :
          /\ constructed[tab] <= 1
          /\ constructed[tab] = 1 <=> tabTables[tab].instance # 0
          /\ tabTables[tab].loads = constructed[tab]
    /\ \A tab, other \in DOMAIN tabTables :
          (tab # other /\ tabTables[tab].instance # 0) =>
              tabTables[tab].instance # tabTables[other].instance
    /\ lastShow.tab \in DOMAIN tabTables => constructed[lastShow.tab] = 1

\* C29 witness: the dues tab was shown first, another tab after it, and the
\* dues tab again: its table is still the first instance
C29_Witness ==
    /\ lastShow = [ tab |-> "#feeDues", hadTable |-> TRUE ]
    /\ tabTables["#feeDues"].instance = 1
    /\ constructed["#feeDues"] = 1
    /\ \E other \in FeesTabs : tabTables[other].instance = 2

\* C30: the month of the calendar stays in 0..11; a navigation call moves the
\* month by one, wrapping between 11 and 0, and changes the year by one when
\* it wraps and not otherwise; nextMonth after previousMonth, and
\* previousMonth after nextMonth, give back the month and year before the two.
C30_CalendarNavigation ==
    /\ currentMonth \in 0..11
    /\ Len(navTrail) >= 1 =>
          LET last == navTrail[Len(navTrail)]
          IN  /\ last.op = "nextMonth" =>
                    /\ currentMonth = (last.month + 1) % 12
                    /\ currentYear = last.year + (IF last.month = 11 THEN 1 ELSE 0)
              /\ last.op = "previousMonth" =>
                    /\ currentMonth = (last.month + 11) % 12
                    /\ currentYear = last.year - (IF last.month = 0 THEN 1 ELSE 0)
    /\ (Len(navTrail) = 2 /\ navTrail[1].op # navTrail[2].op) =>
          /\ currentMonth = navTrail[1].month
          /\ currentYear = navTrail[1].year

\* C30 witness: nextMonth in December and then previousMonth: December of the
\* same year again
C30_Witness ==
    /\ Len(navTrail) = 2
    /\ navTrail[1] = [ op |-> "nextMonth", month |-> 11, year |-> 2026 ]
    /\ navTrail[2] = [ op |-> "previousMonth", month |-> 0, year |-> 2027 ]
    /\ currentMonth = 11
    /\ currentYear = 2026
    /\ calendarHeader = [ month |-> 11, year |-> 2026 ]

====
